---- MODULE Spec2Model ----
(***************************************************************************)
(* ExportWaveforms.call of export_waveforms.py as a state machine.         *)
(*                                                                         *)
(* Units and representations                                               *)
(*   - identifier codes are tuples of one-character strings;               *)
(*   - deltat and tmin are integers in milliseconds, cutoffs are integers  *)
(*     in Hz, so  f < 0.5/deltat  is  f * deltat < 500 ;                   *)
(*   - an optional cutoff is <<>> (None) or <<f>>;                         *)
(*   - a trace's samples are the pair (ydata, filters): ydata is the array *)
(*     that get_ydata/set_ydata read and write, filters is the ordered     *)
(*     list of calls made to pyrocko's filter primitives on the trace;     *)
(*   - the rotation angle is a multiple of 90 degrees, for which cos and   *)
(*     sin are taken at their exact values -1, 0, 1.                       *)
(***************************************************************************)
EXTENDS Integers, Sequences, FiniteSets, TLC

VARIABLES
    format,         \* self.format
    apply_filter,   \* self.apply_filter
    save_stations,  \* self.save_stations
    lowpass,        \* viewer.lowpass
    highpass,       \* viewer.highpass
    rotate,         \* viewer.rotate, degrees
    pc,             \* position in call()
    nbatches,       \* number of batches the chopper has yielded so far
    bound,          \* TRUE once line 77 has assigned the local traces_save
    traces_save,    \* the list traces_save is bound to (<<>> while unbound)
    rotated,        \* ordered (i, j) index pairs on which lines 124-125 ran
    saved,          \* arguments of the io.save invocations that returned
    failure,        \* message handed to self.fail, <<>> if none
    dumps           \* number of model.dump_stations invocations

vars == <<format, apply_filter, save_stations, lowpass, highpass, rotate,
          pc, nbatches, bound, traces_save, rotated, saved, failure, dumps>>

config == <<format, apply_filter, save_stations, lowpass, highpass, rotate>>

----------------------------------------------------------------------------
(* Bounds *)

MaxBatches == 2

MaxBatchLen == 3

----------------------------------------------------------------------------
(* Inputs *)

Formats == {"mseed", "text", "sac", "yaff"}

Cutoffs == {<<>>, <<2>>, <<5>>, <<10>>}

Angles == {0, 90, 180}

SaveErrors == {"disk full", "cannot encode"}

\* Traces the chopper can deliver.  1 and 2 are a N/E pair; 3 becomes a
\* second E partner of 1 once its codes are cut to the miniseed lengths;
\* 4 and 5 are a 1/2 pair at another sampling rate.
Pool ==
    <<[network |-> <<"X","X">>, station |-> <<"A","A","A","A","A">>,
       location |-> <<"0","0">>, channel |-> <<"B","H","N">>,
       deltat |-> 100, tmin |-> 0, ydata |-> <<1, 2>>],
      [network |-> <<"X","X">>, station |-> <<"A","A","A","A","A">>,
       location |-> <<"0","0">>, channel |-> <<"B","H","E">>,
       deltat |-> 100, tmin |-> 0, ydata |-> <<3, 4>>],
      [network |-> <<"X","X","Y">>, station |-> <<"A","A","A","A","A","A">>,
       location |-> <<"0","0","1">>, channel |-> <<"B","H","E","Z">>,
       deltat |-> 100, tmin |-> 0, ydata |-> <<5, 6>>],
      [network |-> <<"X","X">>, station |-> <<"A","A","A","A","A">>,
       location |-> <<"0","0">>, channel |-> <<"B","H","1">>,
       deltat |-> 10, tmin |-> 0, ydata |-> <<7>>],
      [network |-> <<"X","X">>, station |-> <<"A","A","A","A","A">>,
       location |-> <<"0","0">>, channel |-> <<"B","H","2">>,
       deltat |-> 10, tmin |-> 0, ydata |-> <<8>>]>>

\* A trace as the chopper delivers it in its b-th batch: no filter has been
\* called on it yet; id and batch record where it came from.
Delivered(id, b) ==
    [network |-> Pool[id].network, station |-> Pool[id].station,
     location |-> Pool[id].location, channel |-> Pool[id].channel,
     deltat |-> Pool[id].deltat, tmin |-> Pool[id].tmin,
     ydata |-> Pool[id].ydata, filters |-> <<>>, id |-> id, batch |-> b]

RECURSIVE Ascending(_)
Ascending(S) ==
    IF S = {} THEN <<>>
    ELSE LET m == CHOOSE x \in S : \A y \in S : x <= y
         IN <<m>> \o Ascending(S \ {m})

\* The batches one iteration of chopper_selected_traces can yield.
Batches(b) ==
    { [k \in DOMAIN Ascending(S) |-> Delivered(Ascending(S)[k], b)] :
        S \in { T \in SUBSET DOMAIN Pool : Cardinality(T) <= MaxBatchLen } }

----------------------------------------------------------------------------
(* Per-trace conditioning, lines 78-103 *)

Prefix(s, n) == SubSeq(s, 1, n)

\* Normalize with the test of line 79 dropped
NormalizeAnyFormat(fmt, tr) ==
    [tr EXCEPT
        !.network  = IF Len(@) > 2 THEN Prefix(@, 2) ELSE @,
        !.station  = IF Len(@) > 5 THEN Prefix(@, 5) ELSE @,
        !.location = IF Len(@) > 2 THEN Prefix(@, 2) ELSE @,
        !.channel  = IF Len(@) > 3 THEN Prefix(@, 3) ELSE @]

\* lines 79-87
Normalize(fmt, tr) ==
    IF fmt = "mseed"
    THEN [tr EXCEPT
            !.network  = IF Len(@) > 2 THEN Prefix(@, 2) ELSE @,
            !.station  = IF Len(@) > 5 THEN Prefix(@, 5) ELSE @,
            !.location = IF Len(@) > 2 THEN Prefix(@, 2) ELSE @,
            !.channel  = IF Len(@) > 3 THEN Prefix(@, 3) ELSE @]
    ELSE tr

Call(kind, order, corners) ==
    [kind |-> kind, order |-> order, corners |-> corners]

\* BelowNyquist with <= for <
AtOrBelowNyquist(f, tr) == f[1] * tr.deltat <= 500

\* viewer.lowpass < 0.5/tr.deltat  (also used with viewer.highpass)
BelowNyquist(f, tr) == f[1] * tr.deltat < 500

\* lines 89-100
Filter(af, lp, hp, tr) ==
    IF ~af THEN tr
    ELSE IF lp # <<>> /\ hp # <<>>
         THEN [tr EXCEPT !.filters = Append(@, Call("bandpass", 2, hp \o lp))]
    ELSE IF lp # <<>>
         THEN IF BelowNyquist(lp, tr)
              THEN [tr EXCEPT !.filters = Append(@, Call("lowpass", 4, lp))]
              ELSE tr
    ELSE IF hp # <<>>
         THEN IF BelowNyquist(hp, tr)
              THEN [tr EXCEPT !.filters = Append(@, Call("highpass", 4, hp))]
              ELSE tr
    ELSE tr

\* LoopBody without the reset of line 77: the list keeps growing
LoopBodyNoReset(prev, fmt, af, lp, hp, trs) ==
    prev \o [k \in DOMAIN trs |-> Filter(af, lp, hp, Normalize(fmt, trs[k]))]

\* lines 77-103: traces_save after one iteration of the outer loop over trs
LoopBody(prev, fmt, af, lp, hp, trs) ==
    [k \in DOMAIN trs |-> Filter(af, lp, hp, Normalize(fmt, trs[k]))]

----------------------------------------------------------------------------
(* Rotation, lines 105-125 *)

Cos(deg) == CASE deg = 0 -> 1 [] deg = 90 -> 0 [] deg = 180 -> 0 - 1

Sin(deg) == CASE deg = 0 -> 0 [] deg = 90 -> 1 [] deg = 180 -> 0

Abs(x) == IF x < 0 THEN 0 - x ELSE x

LowerChar(c) ==
    CASE c = "N" -> "n" [] c = "E" -> "e" [] c = "B" -> "b" [] c = "H" -> "h"
      [] c = "Z" -> "z" [] c = "X" -> "x" [] c = "Y" -> "y" [] c = "A" -> "a"
      [] OTHER -> c

Lower(s) == [k \in DOMAIN s |-> LowerChar(s[k])]

EndsWith(s, c) == Len(s) > 0 /\ s[Len(s)] = c

\* lines 111-120
Matches(a, b) ==
    /\ a.network = b.network
    /\ a.station = b.station
    /\ a.location = b.location
    /\ \/ EndsWith(Lower(a.channel), "n") /\ EndsWith(Lower(b.channel), "e")
       \/ EndsWith(a.channel, "1") /\ EndsWith(b.channel, "2")
    /\ 1000 * Abs(a.deltat - b.deltat) < a.deltat
    /\ 100 * Abs(a.tmin - b.tmin) < a.deltat
    /\ Len(a.ydata) = Len(b.ydata)

\* lines 122-123
RotA(ay, by, deg) == [k \in DOMAIN ay |-> ay[k] * Cos(deg) + by[k] * Sin(deg)]

RotB(ay, by, deg) ==
    [k \in DOMAIN ay |-> (0 - ay[k]) * Sin(deg) + by[k] * Cos(deg)]

\* lines 111-125 for one (a, b) of the nested loops; st = [ts, log]
RotatePair(st, i, j, deg) ==
    IF Matches(st.ts[i], st.ts[j])
    THEN LET ay == RotA(st.ts[i].ydata, st.ts[j].ydata, deg)
             by == RotB(st.ts[i].ydata, st.ts[j].ydata, deg)
         IN [ts  |-> [st.ts EXCEPT ![i].ydata = ay, ![j].ydata = by],
             log |-> Append(st.log, <<i, j>>)]
    ELSE st

\* lines 109-110: k-th of the n*n iterations, a outer, b inner
RECURSIVE RotateLoop(_, _, _)
RotateLoop(st, k, deg) ==
    LET n == Len(st.ts)
    IN IF k > n * n THEN st
       ELSE RotateLoop(RotatePair(st, ((k - 1) \div n) + 1,
                                      ((k - 1) % n) + 1, deg),
                       k + 1, deg)

\* RotationRuns without the apply_filter conjunct
RotationIgnoresSwitch(deg, af) == deg # 0

\* line 105
RotationRuns(deg, af) == deg # 0 /\ af

----------------------------------------------------------------------------
(* call() *)

Init ==
    /\ format \in Formats
    /\ apply_filter \in BOOLEAN
    /\ save_stations \in BOOLEAN
    /\ lowpass \in Cutoffs
    /\ highpass \in Cutoffs
    /\ rotate \in Angles
    /\ pc = "loop"
    /\ nbatches = 0
    /\ bound = FALSE
    /\ traces_save = <<>>
    /\ rotated = <<>>
    /\ saved = <<>>
    /\ failure = <<>>
    /\ dumps = 0

\* lines 76-103: the chopper yields one more batch and the loop body runs
NextBatch ==
    /\ pc = "loop"
    /\ nbatches < MaxBatches
    /\ \E trs \in Batches(nbatches + 1) :
          traces_save' = LoopBody(traces_save, format, apply_filter,
                                  lowpass, highpass, trs)
    /\ bound' = TRUE
    /\ nbatches' = nbatches + 1
    /\ UNCHANGED <<config, pc, rotated, saved, failure, dumps>>

\* line 76: the chopper is exhausted, control leaves the for loop
ChopperDone ==
    /\ pc = "loop"
    /\ pc' = "rotate"
    /\ UNCHANGED <<config, nbatches, bound, traces_save, rotated, saved, failure,
                   dumps>>

\* line 105 false: the rotation block is skipped
RotateSkip ==
    /\ pc = "rotate"
    /\ ~RotationRuns(rotate, apply_filter)
    /\ pc' = "save"
    /\ UNCHANGED <<config, nbatches, bound, traces_save, rotated, saved, failure,
                   dumps>>

\* lines 105-125 over the list traces_save is bound to
RotateRun ==
    /\ pc = "rotate"
    /\ RotationRuns(rotate, apply_filter)
    /\ bound
    /\ LET r == RotateLoop([ts |-> traces_save, log |-> <<>>], 1, rotate)
       IN /\ traces_save' = r.ts
          /\ rotated' = r.log
    /\ pc' = "save"
    /\ UNCHANGED <<config, nbatches, bound, saved, failure, dumps>>

\* line 109 reads traces_save before any assignment: UnboundLocalError
RotateUnbound ==
    /\ pc = "rotate"
    /\ RotationRuns(rotate, apply_filter)
    /\ ~bound
    /\ pc' = "error"
    /\ UNCHANGED <<config, nbatches, bound, traces_save, rotated, saved, failure,
                   dumps>>

\* lines 127-136: io.save returns
SaveOk ==
    /\ pc = "save"
    /\ bound
    /\ saved' = Append(saved, traces_save)
    /\ pc' = "dump"
    /\ UNCHANGED <<config, nbatches, bound, traces_save, rotated, failure, dumps>>

\* lines 133-134: io.save raises FileSaveError(e); self.fail(str(e)) raises
\* SnufflingCallFailed, which ends call()
SaveFail ==
    /\ pc = "save"
    /\ bound
    /\ \E e \in SaveErrors : failure' = <<e>>
    /\ pc' = "failed"
    /\ UNCHANGED <<config, nbatches, bound, traces_save, rotated, saved, dumps>>

\* line 129 reads traces_save before any assignment: UnboundLocalError
SaveUnbound ==
    /\ pc = "save"
    /\ ~bound
    /\ pc' = "error"
    /\ UNCHANGED <<config, nbatches, bound, traces_save, rotated, saved, failure,
                   dumps>>

\* lines 138-142 with save_stations set
DumpStations ==
    /\ pc = "dump"
    /\ save_stations
    /\ dumps' = dumps + 1
    /\ pc' = "done"
    /\ UNCHANGED <<config, nbatches, bound, traces_save, rotated, saved, failure>>

\* line 138 false
SkipStations ==
    /\ pc = "dump"
    /\ ~save_stations
    /\ pc' = "done"
    /\ UNCHANGED <<config, nbatches, bound, traces_save, rotated, saved, failure,
                   dumps>>

Next ==
    \/ NextBatch
    \/ ChopperDone
    \/ RotateSkip
    \/ RotateRun
    \/ RotateUnbound
    \/ SaveOk
    \/ SaveFail
    \/ SaveUnbound
    \/ DumpStations
    \/ SkipStations

Spec == Init /\ [][Next]_vars

----------------------------------------------------------------------------
(* Properties *)

\* The samples of tr are those the chopper delivered.
Untouched(tr) == tr.ydata = Pool[tr.id].ydata /\ tr.filters = <<>>

Ids(ts) == { ts[k].id : k \in DOMAIN ts }

\* C1: a call over n >= 1 batches whose saves all succeed has invoked the
\* save contract n times, the i-th time with the traces of the i-th batch.
C1_SavePerBatch ==
    (pc = "done" /\ nbatches >= 1) =>
        /\ Len(saved) = nbatches
        /\ \A i \in DOMAIN saved :
              \A k \in DOMAIN saved[i] : saved[i][k].batch = i

\* C2: when the save of a batch fails, every earlier batch has been saved,
\* nothing later is saved, and the call has failed with the save's message.
C2_FailureAfterEarlierSaves ==
    pc = "failed" =>
        /\ failure # <<>>
        /\ failure[1] \in SaveErrors
        /\ Len(saved) = nbatches - 1

\* C3: within the rotation step no trace is rewritten by more than one
\* matched pair.
C3_AtMostOneRotation ==
    \A i \in DOMAIN traces_save :
        Cardinality({ k \in DOMAIN rotated :
                        i = rotated[k][1] \/ i = rotated[k][2] }) <= 1

\* C4: the traces the rotation step compares all come from one batch, and so
\* do the two traces of every rotated pair.
C4_PairsWithinBatch ==
    /\ \A i, j \in DOMAIN traces_save :
          traces_save[i].batch = traces_save[j].batch
    /\ \A k \in DOMAIN rotated :
          /\ rotated[k][1] \in DOMAIN traces_save
          /\ rotated[k][2] \in DOMAIN traces_save
          /\ traces_save[rotated[k][1]].batch
                = traces_save[rotated[k][2]].batch

C4_Witness ==
    /\ pc = "save"
    /\ nbatches = 2
    /\ rotated = <<<<1, 2>>>>
    /\ Ids(traces_save) = {1, 2}

\* C5: after the rotation step has run, every pair (A, B) that satisfies the
\* pairing predicate holds A*cos + B*sin and -A*sin + B*cos of the samples
\* the two traces held before the step.
C5_RotationFromOriginals ==
    (pc = "save" /\ RotationRuns(rotate, apply_filter)) =>
        \A i, j \in DOMAIN traces_save :
            Matches(traces_save[i], traces_save[j]) =>
                /\ traces_save[i].ydata
                     = RotA(Pool[traces_save[i].id].ydata,
                            Pool[traces_save[j].id].ydata, rotate)
                /\ traces_save[j].ydata
                     = RotB(Pool[traces_save[i].id].ydata,
                            Pool[traces_save[j].id].ydata, rotate)

\* now is orig cut to its first lim characters when the format is mseed and
\* orig is longer than lim, and is orig otherwise.
CutTo(orig, now, lim) ==
    IF format = "mseed" /\ Len(orig) > lim
    THEN /\ Len(now) = lim
         /\ \A c \in 1..lim : now[c] = orig[c]
         /\ now # orig
    ELSE now = orig

\* C6: a code of a conditioned trace differs from the delivered one exactly
\* when the format is mseed and the code is longer than 2, 5, 2, 3
\* characters (network, station, location, channel); it is then the leading
\* characters of the delivered code, and normalizing once more changes
\* nothing.
C6_Normalization ==
    \A k \in DOMAIN traces_save :
        LET tr == traces_save[k]
        IN /\ CutTo(Pool[tr.id].network, tr.network, 2)
           /\ CutTo(Pool[tr.id].station, tr.station, 5)
           /\ CutTo(Pool[tr.id].location, tr.location, 2)
           /\ CutTo(Pool[tr.id].channel, tr.channel, 3)
           /\ Normalize(format, tr) = tr

C6_Witness ==
    /\ format = "mseed"
    /\ \E k \in DOMAIN traces_save :
          /\ traces_save[k].id = 3
          /\ traces_save[k].network = <<"X", "X">>
          /\ traces_save[k].station = <<"A", "A", "A", "A", "A">>
          /\ traces_save[k].location = <<"0", "0">>
          /\ traces_save[k].channel = <<"B", "H", "E">>

\* The filter calls the cutoffs ask for on a trace of sample interval dt.
Expected(dt) ==
    IF lowpass # <<>> /\ highpass # <<>>
    THEN <<Call("bandpass", 2, <<highpass[1], lowpass[1]>>)>>
    ELSE IF lowpass # <<>> /\ 2 * lowpass[1] * dt < 1000
    THEN <<Call("lowpass", 4, lowpass)>>
    ELSE IF lowpass = <<>> /\ highpass # <<>> /\ 2 * highpass[1] * dt < 1000
    THEN <<Call("highpass", 4, highpass)>>
    ELSE <<>>

\* C7: with apply_filter set each trace has had exactly the one filter call
\* its cutoffs select (bandpass; lowpass or highpass only below Nyquist) or
\* none, and a single cutoff at or above Nyquist leaves the samples as
\* delivered.
C7_FilterBranches ==
    apply_filter =>
        \A k \in DOMAIN traces_save :
            LET tr == traces_save[k]
            IN /\ tr.filters = Expected(tr.deltat)
               /\ ( /\ pc \in {"loop", "rotate"}
                    /\ (lowpass = <<>>) # (highpass = <<>>)
                    /\ (lowpass \o highpass)[1] * tr.deltat >= 500 )
                       => Untouched(tr)

C7_Witness ==
    /\ pc = "loop"
    /\ apply_filter
    /\ lowpass = <<10>>
    /\ highpass = <<>>
    /\ \E k \in DOMAIN traces_save :
          traces_save[k].deltat = 100 /\ Untouched(traces_save[k])
    /\ \E k \in DOMAIN traces_save :
          /\ traces_save[k].deltat = 10
          /\ traces_save[k].filters = <<Call("lowpass", 4, <<10>>)>>

\* C8: with apply_filter unset every trace handed to the save contract has
\* the samples the chopper delivered, and with a rotation angle of 0 the
\* rotation step rewrites no trace.
C8_NoFilterNoRotation ==
    /\ ~apply_filter =>
          /\ \A k \in DOMAIN traces_save : Untouched(traces_save[k])
          /\ \A i \in DOMAIN saved :
                \A k \in DOMAIN saved[i] : Untouched(saved[i][k])
    /\ rotate = 0 =>
          /\ rotated = <<>>
          /\ \A k \in DOMAIN traces_save :
                traces_save[k].ydata = Pool[traces_save[k].id].ydata

C8_Witness ==
    /\ ~apply_filter
    /\ rotate = 90
    /\ lowpass = <<2>>
    /\ Len(saved) = 1
    /\ Ids(saved[1]) = {1, 2}

\* C9: dump_stations is invoked at most once, only with save_stations set,
\* and only after every batch has been saved.
C9_DumpAfterAllSaves ==
    /\ dumps <= 1
    /\ ~save_stations => dumps = 0
    /\ dumps > 0 => Len(saved) = nbatches

\* C10: when the chopper yields no batch the call ends without an error.
C10_EmptyChopperNoError ==
    nbatches = 0 => pc # "error"

====
